---- MODULE Spec2Model ----
(***************************************************************************)
(* Model of the stroke-analysis pipeline of scripts/data_processing.py:    *)
(* load -> clean_stroke_data -> get_stroke_stats -> get_age_groups ->      *)
(* get_bmi_category -> get_glucose_category -> get_stats_by_column, and of  *)
(* the consumers of the aggregation rows: export_for_tableau and the       *)
(* charts of scripts/visualizations.py drawn per ordinal column.           *)
(*                                                                         *)
(* A table (pandas DataFrame) is a sequence of records.  Only the columns  *)
(* the functions read are kept: gender, age, avg_glucose_level, bmi,       *)
(* stroke, plus the row label `index` of the frame.                        *)
(*                                                                         *)
(* Numbers.  Continuous measurements are fixed-point integers in units of  *)
(* 1/40 (Fx(18, 5) is 18.5), so that a median of two one-decimal values,   *)
(* and a median of such medians, is exact.  A float cell is the record     *)
(* [tok |-> "", val |-> v]; the float NaN is [tok |-> "NaN", val |-> 0]; a *)
(* cell holding text is [tok |-> <the text>, val |-> 0].  Rates are in     *)
(* hundredths of a percent (3333 is 33.33).                                *)
(***************************************************************************)
EXTENDS Integers, Sequences, FiniteSets, TLC

VARIABLES
    df,         \* the table returned by load_stroke_data (caller's object)
    df_clean,   \* the caller's pipeline variable, rebound after each stage
    arg,        \* the table object passed to the last stage, as the stage left it
    stats,      \* the dict returned by get_stroke_stats
    column,     \* the grouping column of the last get_stats_by_column call
    grouped,    \* the rows returned by get_stats_by_column
    observed,   \* groupby's default for `observed`, which the code leaves to the
                \* installed pandas: FALSE before pandas 3.0, TRUE from 3.0 on
    consumer,   \* the function that last wrote or drew aggregation rows
    consumed,   \* the rows it wrote or drew, in the order it wrote or drew them
    pc          \* position in the pipeline

vars == <<df, df_clean, arg, stats, column, grouped, observed, consumer, consumed, pc>>

\* Largest number of rows of a loaded table.
MaxRows == 3

----------------------------------------------------------------------------
\* Values

\* whole.tenths as a fixed-point integer in units of 1/40.
Fx(whole, tenths) == whole * 40 + tenths * 4

Num(v) == [tok |-> "", val |-> v]
NaN == [tok |-> "NaN", val |-> 0]
Str(s) == [tok |-> s, val |-> 0]

IsNum(c) == c.tok = ""
IsNaN(c) == c.tok = "NaN"

RECURSIVE SumSeq(_)
SumSeq(s) == IF s = <<>> THEN 0 ELSE Head(s) + SumSeq(Tail(s))

RECURSIVE InsertSorted(_, _)
InsertSorted(x, s) ==
    IF s = <<>> THEN <<x>>
    ELSE IF x <= Head(s) THEN <<x>> \o s
    ELSE <<Head(s)>> \o InsertSorted(x, Tail(s))

RECURSIVE SortAsc(_)
SortAsc(s) == IF s = <<>> THEN <<>> ELSE InsertSorted(Head(s), SortAsc(Tail(s)))

----------------------------------------------------------------------------
\* Loader

\* The field texts that pd.read_csv reads as a missing value by default.
\* (The empty field is one too; no row of the model has one.)
na_values ==
    {"#N/A", "#N/A N/A", "#NA", "-1.#IND", "-1.#QNAN", "-NaN", "-nan", "1.#IND",
     "1.#QNAN", "<NA>", "N/A", "NA", "NULL", "NaN", "None", "n/a", "nan", "null"}

\* One field as pd.read_csv reads it: a missing-value text becomes NaN, any
\* other text of a column that is not all numbers stays text.
read_field(cell) == IF ~IsNum(cell) /\ cell.tok \in na_values THEN NaN ELSE cell

\* pd.read_csv: the rows of the file in file order, labelled 0, 1, 2, ...
load_stroke_data(rows) ==
    [i \in 1..Len(rows) |->
        [rows[i] EXCEPT !.bmi = read_field(@)] @@ [index |-> i - 1]]

\* The dtype pd.read_csv gives the stroke column: a file without rows gives
\* object columns, a file of 0/1 fields an integer column.  The stages keep it.
stroke_dtype(loaded) == IF Len(loaded) = 0 THEN "object" ELSE "int64"

----------------------------------------------------------------------------
\* Cleaner

\* pd.to_numeric(errors='coerce') on one cell: a number (or numeric text)
\* becomes that float, anything else becomes NaN.
to_numeric(cell) == IF IsNum(cell) THEN cell ELSE NaN

\* A median that takes the lower of the two middle values of an even count
\* instead of their mean.
median_low(cells) ==
    LET present == SelectSeq(cells, IsNum)
        s == SortAsc([i \in 1..Len(present) |-> present[i].val])
        n == Len(s)
    IN  IF n = 0 THEN NaN ELSE Num(s[(n + 1) \div 2])

\* Series.median(): NaN is skipped; the middle of the sorted values, the
\* mean of the two middle ones for an even count, NaN when nothing is left.
median(cells) ==
    LET present == SelectSeq(cells, IsNum)
        s == SortAsc([i \in 1..Len(present) |-> present[i].val])
        n == Len(s)
    IN  IF n = 0 THEN NaN
        ELSE IF n % 2 = 1 THEN Num(s[(n + 1) \div 2])
        ELSE Num((s[n \div 2] + s[n \div 2 + 1]) \div 2)

\* Series.fillna(value) on one cell.
fillna(cell, value) == IF IsNaN(cell) THEN value ELSE cell

\* Lines 26-30 on the column of the copy: coerce, take the median, fill.
impute_bmi(t) ==
    LET numeric == [i \in 1..Len(t) |-> [t[i] EXCEPT !.bmi = to_numeric(@)]]
        bmi_median == median([i \in 1..Len(t) |-> numeric[i].bmi])
    IN  [i \in 1..Len(t) |-> [numeric[i] EXCEPT !.bmi = fillna(@, bmi_median)]]

\* A filter that drops the least frequent gender value of the table it is
\* given, whatever its label.
drop_rarest(t) ==
    LET count(g) == Cardinality({i \in 1..Len(t) : t[i].gender = g})
        rarest(g) == \A i \in 1..Len(t) : count(g) <= count(t[i].gender)
    IN  SelectSeq(t, LAMBDA r : ~rarest(r.gender))

\* df_clean[df_clean['gender'] != 'Other']: a new frame, row order and
\* row labels kept.
drop_other(t) == SelectSeq(t, LAMBDA r : r.gender # "Other")

\* A clean that works on the caller's table instead of a copy: the column
\* assignment of line 30 then lands in the caller's table.
clean_in_place(t) ==
    [arg |-> impute_bmi(t), ret |-> drop_other(impute_bmi(t))]

\* clean_stroke_data(df).  `arg` is the caller's table after the call: the
\* function works on df.copy(), so the caller's table is as it was passed.
clean_stroke_data(t) ==
    [arg |-> t, ret |-> drop_other(impute_bmi(t))]

----------------------------------------------------------------------------
\* Categorizer

bins == <<Fx(0, 0), Fx(18, 0), Fx(30, 0), Fx(45, 0), Fx(60, 0), Fx(75, 0), Fx(100, 0)>>
labels == <<"0-18", "19-30", "31-45", "46-60", "61-75", "75+">>

\* The missing value of a label column.
NoLabel == "NaN"

\* pd.cut(age, bins, labels, include_lowest=True) on one value: the bin
\* (bins[i], bins[i+1]] holding it, the first bin closed on the left too,
\* and no label for a value outside [bins[1], bins[7]].
cut(age) ==
    IF age = bins[1] THEN labels[1]
    ELSE IF \E i \in 1..Len(labels) : bins[i] < age /\ age <= bins[i + 1]
         THEN labels[CHOOSE i \in 1..Len(labels) : bins[i] < age /\ age <= bins[i + 1]]
         ELSE NoLabel

\* get_age_groups(df): a copy with the column age_group added.
get_age_groups(t) ==
    [arg |-> t,
     ret |-> [i \in 1..Len(t) |-> t[i] @@ [age_group |-> cut(t[i].age)]]]

\* categorize_bmi(bmi); every comparison with NaN is false.
categorize_bmi(bmi) ==
    IF IsNum(bmi) /\ bmi.val < Fx(18, 5) THEN "Underweight"
    ELSE IF IsNum(bmi) /\ bmi.val < Fx(25, 0) THEN "Normal"
    ELSE IF IsNum(bmi) /\ bmi.val < Fx(30, 0) THEN "Overweight"
    ELSE "Obese"

\* get_bmi_category(df): a copy with the column bmi_category added.
get_bmi_category(t) ==
    [arg |-> t,
     ret |-> [i \in 1..Len(t) |-> t[i] @@ [bmi_category |-> categorize_bmi(t[i].bmi)]]]

categorize_glucose(glucose) ==
    IF glucose < Fx(100, 0) THEN "Normal"
    ELSE IF glucose < Fx(126, 0) THEN "Pre-diabetic"
    ELSE "Diabetic"

\* get_glucose_category(df): a copy with the column glucose_category added.
get_glucose_category(t) ==
    [arg |-> t,
     ret |-> [i \in 1..Len(t) |->
                t[i] @@ [glucose_category |-> categorize_glucose(t[i].avg_glucose_level)]]]

----------------------------------------------------------------------------
\* Aggregator

\* Double-precision arithmetic.  A natural number too large for one machine
\* integer is a sequence of limbs, least significant first, in base 2^15,
\* without a zero at the top (0 is <<>>).  A double is m * 2^e for such an m
\* of at most 54 bits; counts are below 2^15.
Limb == 2 ^ 15

RECURSIVE MulSmall(_, _, _)
\* a * k + carry, for k <= Limb and carry < Limb
MulSmall(a, k, carry) ==
    IF a = <<>> THEN (IF carry = 0 THEN <<>> ELSE <<carry>>)
    ELSE LET v == Head(a) * k + carry
         IN  <<v % Limb>> \o MulSmall(Tail(a), k, v \div Limb)

RECURSIVE DivSmall(_, _)
\* quotient and remainder of a by k, for 0 < k <= Limb
DivSmall(a, k) ==
    IF a = <<>> THEN [q |-> <<>>, r |-> 0]
    ELSE LET hi == DivSmall(Tail(a), k)
             cur == hi.r * Limb + Head(a)
         IN  [q |-> IF hi.q = <<>> /\ cur \div k = 0 THEN <<>> ELSE <<cur \div k>> \o hi.q,
              r |-> cur % k]

RECURSIVE AddOne(_)
AddOne(a) ==
    IF a = <<>> THEN <<1>>
    ELSE IF Head(a) + 1 < Limb THEN <<Head(a) + 1>> \o Tail(a)
    ELSE <<0>> \o AddOne(Tail(a))

IsOdd(a) == a # <<>> /\ Head(a) % 2 = 1

\* The number of binary digits of a.
BitLength(a) ==
    IF a = <<>> THEN 0
    ELSE 15 * (Len(a) - 1) + (CHOOSE b \in 1..15 : 2 ^ (b - 1) <= a[Len(a)] /\ a[Len(a)] < 2 ^ b)

RECURSIVE FloorShift(_, _)
\* a with its s lowest binary digits dropped, and whether any of them was 1
FloorShift(a, s) ==
    IF s = 0 THEN [q |-> a, sticky |-> FALSE]
    ELSE LET step == IF s < 15 THEN s ELSE 15
             low == DivSmall(a, 2 ^ step)
             rest == FloorShift(low.q, s - step)
         IN  [q |-> rest.q, sticky |-> rest.sticky \/ low.r # 0]

\* a / 2^s to the nearest natural number, a tie going to the even one (the
\* rounding of every double operation).
RoundShift(a, s) ==
    IF s = 0 THEN a
    ELSE LET f == FloorShift(a, s - 1)
             last == DivSmall(f.q, 2)
         IN  IF last.r = 1 /\ (f.sticky \/ IsOdd(last.q)) THEN AddOne(last.q) ELSE last.q

\* The double n / d for counts 0 <= n <= d, 0 < d: the quotient to 53
\* significant binary digits, a tie going to the even one.
fdiv(n, d) ==
    IF n = 0 THEN [m |-> <<>>, e |-> 0]
    ELSE LET s == CHOOSE k \in 0..15 :
                    /\ n * 2 ^ k >= d
                    /\ \A j \in 0..(k - 1) : n * 2 ^ j < d
             numerator == MulSmall(MulSmall(MulSmall(MulSmall(
                              IF n * 2 ^ s < Limb THEN <<n * 2 ^ s>>
                              ELSE <<(n * 2 ^ s) % Limb, (n * 2 ^ s) \div Limb>>,
                              2 ^ 7, 0), Limb, 0), Limb, 0), Limb, 0)
             qr == DivSmall(numerator, d)
             up == 2 * qr.r > d \/ (2 * qr.r = d /\ IsOdd(qr.q))
         IN  [m |-> IF up THEN AddOne(qr.q) ELSE qr.q, e |-> 0 - (52 + s)]

\* The double x * 100: the exact product cut to 53 significant digits.
fmul100(x) ==
    LET p == MulSmall(x.m, 100, 0)
        s == IF BitLength(p) > 53 THEN BitLength(p) - 53 ELSE 0
    IN  [m |-> RoundShift(p, s), e |-> x.e + s]

\* The natural number of a one-limb a.
ToInt(a) == IF a = <<>> THEN 0 ELSE a[1]

\* A rint that cuts the fraction off.
rint_down(x) == ToInt(FloorShift(x.m, 0 - x.e).q)

\* np.rint of a double 0 <= x < 2^15 with e <= 0: the nearest integer, a
\* tie going to the even one.
rint(x) == ToInt(RoundShift(x.m, 0 - x.e))

\* round(stroke_count / total_count * 100, 2), in hundredths of a percent.
\* The division and the multiplication are double operations, and numpy's
\* round multiplies by 100 again, takes rint and divides by 100.  The
\* division 0/0 of numpy numbers gives NaN and raises nothing.
stroke_rate(stroke_count, total_count) ==
    IF total_count = 0 THEN NaN
    ELSE Num(rint(fmul100(fmul100(fdiv(stroke_count, total_count)))))

\* get_stroke_stats(df): the dict returned, or the exception raised.  The
\* sum of an empty object column is the Python int 0, and 0 / 0 of Python
\* ints raises; the sum of an emptied integer column is a numpy integer,
\* whose 0 / 0 is NaN.
get_stroke_stats(t, dtype) ==
    LET total == Len(t)
        stroke_cases == SumSeq([i \in 1..Len(t) |-> t[i].stroke])
        no_stroke == total - stroke_cases
    IN  IF total = 0 /\ dtype = "object"
        THEN [raised |-> "ZeroDivisionError", ret |-> <<>>]
        ELSE [raised |-> "",
              ret |-> [total_patients |-> total,
                       stroke_cases |-> stroke_cases,
                       no_stroke_cases |-> no_stroke,
                       stroke_rate |-> stroke_rate(stroke_cases, total)]]

\* The text keys of the modelled columns in ascending (code point) order,
\* the order in which groupby(sort=True) returns the keys of a text column.
LexOrder ==
    <<"Diabetic", "Female", "Male", "Normal", "Obese", "Other",
      "Overweight", "Pre-diabetic", "Underweight">>

\* Columns of categorical dtype: pd.cut returns a Categorical.
IsCategorical(col) == col = "age_group"

\* The group keys of df.groupby(col): a missing key forms no group
\* (dropna=True).  A text column gives its distinct values in ascending
\* order.  A categorical column gives its categories in category order:
\* every category when `observed` is false, the ones present otherwise.
group_keys(t, col, obs) ==
    LET present(k) == \E i \in 1..Len(t) : t[i][col] = k
    IN  IF IsCategorical(col)
        THEN IF obs THEN SelectSeq(labels, present) ELSE labels
        ELSE SelectSeq(LexOrder, present)

\* get_stats_by_column(df, column)
get_stats_by_column(t, col, obs) ==
    LET keys == group_keys(t, col, obs)
        row(key) ==
            LET members == SelectSeq(t, LAMBDA r : r[col] = key)
                stroke_count == SumSeq([i \in 1..Len(members) |-> members[i].stroke])
                total_count == Len(members)
            IN  [key |-> key,
                 stroke_count |-> stroke_count,
                 total_count |-> total_count,
                 no_stroke_count |-> total_count - stroke_count,
                 stroke_rate |-> stroke_rate(stroke_count, total_count)]
    IN  [k \in 1..Len(keys) |-> row(keys[k])]

----------------------------------------------------------------------------
\* Consumers of the aggregation rows

bmi_order == <<"Underweight", "Normal", "Overweight", "Obese">>
glucose_order == <<"Normal", "Pre-diabetic", "Diabetic">>

\* df[df[col].isin(order)]
isin(t, col, order) ==
    SelectSeq(t, LAMBDA r : \E k \in 1..Len(order) : order[k] = r[col])

\* df.groupby(col)['stroke'].agg(['sum', 'count']).reset_index() with the
\* column stroke_rate = sum / count * 100 added.  The rate is not rounded:
\* it is kept as the fraction num/den, which is the float NaN when den is 0.
chart_stats(t, col, obs) ==
    LET keys == group_keys(t, col, obs)
        row(key) ==
            LET members == SelectSeq(t, LAMBDA r : r[col] = key)
                sum == SumSeq([i \in 1..Len(members) |-> members[i].stroke])
                count == Len(members)
            IN  [key |-> key, sum |-> sum, count |-> count,
                 stroke_rate |-> [num |-> sum * 100, den |-> count]]
    IN  [k \in 1..Len(keys) |-> row(keys[k])]

\* rows[col] = pd.Categorical(rows[col], categories=order, ordered=True)
\* followed by rows.sort_values(col): the rows in the order of `order`.
\* Every key is one of `order` here, the table having gone through isin.
sort_values(rows, order) ==
    LET present(k) == \E i \in 1..Len(rows) : rows[i].key = k
        keys == SelectSeq(order, present)
    IN  [j \in 1..Len(keys) |->
            rows[CHOOSE i \in 1..Len(rows) : rows[i].key = keys[j]]]

\* plot_age_group_stroke_rate(df): one bar per row, in row order.
plot_age_group_stroke_rate(t, obs) == chart_stats(t, "age_group", obs)

\* plot_bmi_analysis(df): one bar per row of the sorted statistics.
plot_bmi_analysis(t, obs) ==
    sort_values(chart_stats(isin(t, "bmi_category", bmi_order), "bmi_category", obs),
                bmi_order)

\* plot_glucose_analysis(df): one bar per row of the sorted statistics.
plot_glucose_analysis(t, obs) ==
    sort_values(chart_stats(isin(t, "glucose_category", glucose_order),
                            "glucose_category", obs),
                glucose_order)

\* summary.to_csv(path, index=False) in export_for_tableau: the rows of the
\* frame in frame order.
to_csv(rows) == rows

----------------------------------------------------------------------------
\* Inputs: the rows of the delimited file

Row(g, a, glu, b, s) ==
    [gender |-> g, age |-> a, avg_glucose_level |-> glu, bmi |-> b, stroke |-> s]

\* Rows that differ in gender and in the BMI field: two numbers, the
\* missing-value token and a token that is neither.
CleanRows ==
    { Row(g, Fx(50, 0), Fx(90, 0), b, 0) :
        g \in {"Male", "Female", "Other"},
        b \in {Num(Fx(17, 0)), Num(Fx(22, 0)), Str("N/A"), Str("abc")} }

\* Rows that differ in age, on and around the bin edges, and in outcome.
AgeRows ==
    { Row("Male", a, Fx(90, 0), Num(Fx(22, 0)), s) :
        a \in {Fx(0, 0), Fx(18, 0), Fx(18, 1), Fx(100, 0), Fx(101, 0)},
        s \in {0, 1} }

\* Rows that differ in BMI, on and around the category edges, and in outcome.
BmiRows ==
    { Row("Female", Fx(50, 0), Fx(90, 0), Num(b), s) :
        b \in {Fx(17, 0), Fx(18, 5), Fx(25, 0), Fx(30, 0)},
        s \in {0, 1} }

\* Rows that differ in glucose level, on and around the category edges,
\* in gender and in outcome.
GlucoseRows ==
    { Row(g, Fx(50, 0), glu, Num(Fx(28, 0)), s) :
        g \in {"Male", "Female"},
        glu \in {Fx(99, 9), Fx(100, 0), Fx(126, 0)},
        s \in {0, 1} }

SeqsUpTo(S, n) == UNION { [1..k -> S] : k \in 0..n }

CsvFiles ==
    SeqsUpTo(CleanRows, MaxRows) \cup SeqsUpTo(AgeRows, MaxRows)
      \cup SeqsUpTo(BmiRows, MaxRows) \cup SeqsUpTo(GlucoseRows, MaxRows)

GroupColumns == {"gender", "age_group", "bmi_category", "glucose_category"}

----------------------------------------------------------------------------
\* The pipeline

Init ==
    /\ \E rows \in CsvFiles : df = load_stroke_data(rows)
    /\ df_clean = <<>>
    /\ arg = <<>>
    /\ stats = <<>>
    /\ column = ""
    /\ grouped = <<>>
    /\ observed \in BOOLEAN
    /\ consumer = ""
    /\ consumed = <<>>
    /\ pc = "loaded"

\* df_clean = clean_stroke_data(df)
Clean ==
    /\ pc = "loaded"
    /\ LET call == clean_stroke_data(df)
       IN  /\ df' = call.arg
           /\ arg' = call.arg
           /\ df_clean' = call.ret
    /\ pc' = "cleaned"
    /\ UNCHANGED <<stats, column, grouped, observed, consumer, consumed>>

\* clean_stroke_data applied to its own result
CleanAgain ==
    /\ pc = "cleaned"
    /\ LET call == clean_stroke_data(df_clean)
       IN  /\ arg' = call.arg
           /\ df_clean' = call.ret
    /\ pc' = "recleaned"
    /\ UNCHANGED <<df, stats, column, grouped, observed, consumer, consumed>>

\* stats = get_stroke_stats(df_clean); an exception ends the script
StrokeStats ==
    /\ pc = "cleaned"
    /\ LET call == get_stroke_stats(df_clean, stroke_dtype(df))
       IN  IF call.raised = ""
           THEN stats' = call.ret /\ pc' = "summarized"
           ELSE stats' = stats /\ pc' = call.raised
    /\ UNCHANGED <<df, df_clean, arg, column, grouped, observed, consumer, consumed>>

\* df_clean = get_age_groups(df_clean)
AgeGroups ==
    /\ pc = "summarized"
    /\ LET call == get_age_groups(df_clean)
       IN  /\ arg' = call.arg
           /\ df_clean' = call.ret
    /\ pc' = "age_groups"
    /\ UNCHANGED <<df, stats, column, grouped, observed, consumer, consumed>>

\* df_clean = get_bmi_category(df_clean)
BmiCategory ==
    /\ pc = "age_groups"
    /\ LET call == get_bmi_category(df_clean)
       IN  /\ arg' = call.arg
           /\ df_clean' = call.ret
    /\ pc' = "bmi_category"
    /\ UNCHANGED <<df, stats, column, grouped, observed, consumer, consumed>>

\* df_clean = get_glucose_category(df_clean)
GlucoseCategory ==
    /\ pc = "bmi_category"
    /\ LET call == get_glucose_category(df_clean)
       IN  /\ arg' = call.arg
           /\ df_clean' = call.ret
    /\ pc' = "annotated"
    /\ UNCHANGED <<df, stats, column, grouped, observed, consumer, consumed>>

\* grouped = get_stats_by_column(df_clean, col)
StatsByColumn ==
    /\ pc = "annotated"
    /\ \E col \in GroupColumns :
         /\ column' = col
         /\ grouped' = get_stats_by_column(df_clean, col, observed)
    /\ pc' = "aggregated"
    /\ UNCHANGED <<df, df_clean, arg, stats, observed, consumer, consumed>>

\* export_for_tableau: <col>_summary.to_csv(...) of the rows just aggregated
Export ==
    /\ pc = "aggregated"
    /\ consumer' = "export_for_tableau"
    /\ consumed' = to_csv(grouped)
    /\ pc' = "exported"
    /\ UNCHANGED <<df, df_clean, arg, stats, column, grouped, observed>>

\* create_all_visualizations: plot_age_group_stroke_rate(df)
PlotAgeGroup ==
    /\ pc = "annotated"
    /\ consumer' = "plot_age_group_stroke_rate"
    /\ column' = "age_group"
    /\ consumed' = plot_age_group_stroke_rate(df_clean, observed)
    /\ pc' = "plotted"
    /\ UNCHANGED <<df, df_clean, arg, stats, grouped, observed>>

\* create_all_visualizations: plot_bmi_analysis(df)
PlotBmi ==
    /\ pc = "annotated"
    /\ consumer' = "plot_bmi_analysis"
    /\ column' = "bmi_category"
    /\ consumed' = plot_bmi_analysis(df_clean, observed)
    /\ pc' = "plotted"
    /\ UNCHANGED <<df, df_clean, arg, stats, grouped, observed>>

\* create_all_visualizations: plot_glucose_analysis(df)
PlotGlucose ==
    /\ pc = "annotated"
    /\ consumer' = "plot_glucose_analysis"
    /\ column' = "glucose_category"
    /\ consumed' = plot_glucose_analysis(df_clean, observed)
    /\ pc' = "plotted"
    /\ UNCHANGED <<df, df_clean, arg, stats, grouped, observed>>

Next ==
    \/ Clean
    \/ CleanAgain
    \/ StrokeStats
    \/ AgeGroups
    \/ BmiCategory
    \/ GlucoseCategory
    \/ StatsByColumn
    \/ Export
    \/ PlotAgeGroup
    \/ PlotBmi
    \/ PlotGlucose

Spec == Init /\ [][Next]_vars

----------------------------------------------------------------------------
\* Properties

Cleaned == pc = "cleaned"
AgeAnnotated == pc \in {"age_groups", "bmi_category", "annotated", "aggregated"}
Aggregated == pc = "aggregated"

\* The row of the loaded table that a row of a later table comes from.
Source(r) == df[r.index + 1]

\* C1: after clean, no record has a missing BMI and every record's gender
\* is Male or Female.
C1_CleanedTableInvariant ==
    Cleaned =>
        \A i \in 1..Len(df_clean) :
            /\ IsNum(df_clean[i].bmi)
            /\ df_clean[i].gender \in {"Male", "Female"}

\* C2: the per-group total counts add up to the number of records of the
\* table and the per-group outcome-positive counts to the table's
\* outcome-positive count, whatever the grouping column.
C2_AggregationConserves ==
    Aggregated =>
        /\ SumSeq([k \in 1..Len(grouped) |-> grouped[k].total_count]) = Len(df_clean)
        /\ SumSeq([k \in 1..Len(grouped) |-> grouped[k].stroke_count])
             = Cardinality({i \in 1..Len(df_clean) : df_clean[i].stroke = 1})

\* C3: every record with a defined age carries one of the six labels, a
\* boundary age falling in the bin that ends at it.
C3_AgeLabelTotal ==
    AgeAnnotated =>
        \A i \in 1..Len(df_clean) :
            LET r == df_clean[i]
            IN  /\ r.age_group \in {labels[k] : k \in 1..Len(labels)}
                /\ (r.age = Fx(0, 0) \/ r.age = Fx(18, 0)) => r.age_group = "0-18"
                /\ (Fx(18, 0) < r.age /\ r.age <= Fx(30, 0)) => r.age_group = "19-30"
                /\ r.age = Fx(100, 0) => r.age_group = "75+"

\* C4: no row returned by the aggregation has total count 0.
C4_NoEmptyGroup ==
    Aggregated => \A k \in 1..Len(grouped) : grouped[k].total_count > 0

\* C5: clean returns no table when some BMI field is neither a number nor
\* the missing-value token (which the loaded table holds as NaN).
C5_UnparseableBmiRejected ==
    Cleaned => \A i \in 1..Len(df) : IsNum(df[i].bmi) \/ IsNaN(df[i].bmi)

\* The loaded rows whose BMI field holds a number.
Present == {i \in 1..Len(df) : IsNum(df[i].bmi)}

\* How many of the loaded BMI numbers are below v, and how many are at most v.
Below(v) == Cardinality({i \in Present : df[i].bmi.val < v})
AtMost(v) == Cardinality({i \in Present : df[i].bmi.val <= v})

\* m is the median of the loaded BMI numbers: the mean of the values at the
\* two middle ranks (the same rank for an odd count), NaN when there is none.
IsInputMedian(m) ==
    LET n == Cardinality(Present)
    IN  IF n = 0 THEN IsNaN(m)
        ELSE /\ IsNum(m)
             /\ \E i, j \in Present :
                  LET lo == df[i].bmi.val
                      hi == df[j].bmi.val
                  IN  /\ Below(lo) <= (n - 1) \div 2 /\ (n - 1) \div 2 < AtMost(lo)
                      /\ Below(hi) <= n \div 2 /\ n \div 2 < AtMost(hi)
                      /\ 2 * m.val = lo + hi

\* C6: in the cleaned table a record whose BMI was not a number in the input
\* carries the median of the input's BMI numbers, and a record whose BMI was
\* a number keeps it.
C6_MedianImputation ==
    Cleaned =>
        \A i \in 1..Len(df_clean) :
            LET r == df_clean[i]
            IN  IF IsNum(Source(r).bmi)
                THEN r.bmi = Source(r).bmi
                ELSE IsInputMedian(r.bmi)

\* C6 witness: a cleaned table holding a record that kept its BMI and a
\* record that received a median lying strictly between two input values.
C6_Witness ==
    /\ Cleaned
    /\ \E i, j \in 1..Len(df_clean) :
         /\ IsNum(Source(df_clean[i]).bmi)
         /\ ~IsNum(Source(df_clean[j]).bmi)
         /\ IsNum(df_clean[j].bmi)
         /\ \A k \in Present : df[k].bmi # df_clean[j].bmi

\* C7: when the grouping column holds one value for all records, the
\* aggregation is one row that equals the table-wide summary.
C7_ConstantKeyIsSummary ==
    (Aggregated /\ Cardinality({df_clean[i][column] : i \in 1..Len(df_clean)}) = 1) =>
        /\ Len(grouped) = 1
        /\ grouped[1].total_count = stats.total_patients
        /\ grouped[1].stroke_count = stats.stroke_cases
        /\ grouped[1].no_stroke_count = stats.no_stroke_cases
        /\ grouped[1].stroke_rate = stats.stroke_rate
        /\ stats = get_stroke_stats(df_clean, stroke_dtype(df)).ret

\* The records of the aggregated table whose grouping value is key.
Group(key) == {i \in 1..Len(df_clean) : df_clean[i][column] = key}

\* rate is pos/total * 100 to the nearest hundredth: a number for a group
\* with records, the float 0/0 (NaN) for a row without any.
IsRoundedRate(rate, pos, total) ==
    IF total = 0 THEN IsNaN(rate)
    ELSE /\ IsNum(rate)
         /\ 2 * (rate.val * total - 10000 * pos) <= total
         /\ 2 * (10000 * pos - rate.val * total) <= total

\* The rate of a group of 100 records of which 5 are outcome-positive.
FiveOfHundred == stroke_rate(5, 100)

\* C8: each row counts the outcome-positive records and the records of its
\* group, the negative count is their difference and the rate is
\* positive/total * 100 rounded to 2 decimals; 5 of 100 gives 5.00.
C8_RowCounts ==
    /\ FiveOfHundred = Num(500)
    /\ Aggregated =>
         \A k \in 1..Len(grouped) :
            LET row == grouped[k]
            IN  /\ row.total_count = Cardinality(Group(row.key))
                /\ row.stroke_count
                     = Cardinality({i \in Group(row.key) : df_clean[i].stroke = 1})
                /\ row.no_stroke_count = row.total_count - row.stroke_count
                /\ IsRoundedRate(row.stroke_rate, row.stroke_count, row.total_count)

\* C8 witness: a row of three records of which one or two are positive, so
\* that the rate (33.33 or 66.67) is a rounded one.
C8_Witness ==
    /\ Aggregated
    /\ \E k \in 1..Len(grouped) :
         /\ grouped[k].total_count = 3
         /\ grouped[k].stroke_count \in {1, 2}
         /\ grouped[k].stroke_rate \in {Num(3333), Num(6667)}

\* A step that calls clean or one of the three annotate functions.
TransformStep == pc' \in {"cleaned", "recleaned", "age_groups", "bmi_category", "annotated"}

\* C9: clean and the three annotate functions leave the table they are
\* passed as it was: after the call the caller's table is unchanged.
C9_InputUnchanged ==
    [][TransformStep =>
         /\ df' = df
         /\ arg' = (IF pc = "loaded" THEN df ELSE df_clean)]_vars

\* C9 witness: after clean and get_age_groups ran, the loaded table still
\* holds its unparsed BMI field although clean returned a different table,
\* and the table passed to get_age_groups has no age_group column although
\* the returned one has.
C9_Witness ==
    /\ pc = "age_groups"
    /\ \E i \in 1..Len(df) : ~IsNum(df[i].bmi)
    /\ Len(arg) > 0
    /\ arg # df
    /\ "age_group" \notin DOMAIN arg[1]
    /\ "age_group" \in DOMAIN df_clean[1]

\* C10: clean applied to a table clean returned gives that table again.
C10_CleanIdempotent ==
    [][(pc = "cleaned" /\ pc' = "recleaned") => df_clean' = df_clean]_vars

\* C10 witness: clean ran twice on a table whose first cleaning dropped a
\* record and imputed a BMI.
C10_Witness ==
    /\ pc = "recleaned"
    /\ 0 < Len(df_clean) /\ Len(df_clean) < Len(df)
    /\ \E i \in 1..Len(df_clean) :
         ~IsNum(Source(df_clean[i]).bmi) /\ IsNum(df_clean[i].bmi)

\* The fixed label sequence of an ordinal column.
FixedOrder(col) ==
    IF col = "age_group" THEN labels
    ELSE IF col = "bmi_category" THEN bmi_order
    ELSE glucose_order

\* The position of label k in the fixed sequence of col.
Position(col, k) == CHOOSE p \in 1..Len(FixedOrder(col)) : FixedOrder(col)[p] = k

\* C11: the rows of an ordinal column that the exporter writes or a chart
\* draws are in the fixed label sequence of the column.
C11_ConsumedInFixedOrder ==
    (consumer # "" /\ column \in {"age_group", "bmi_category", "glucose_category"}) =>
        \A i, j \in 1..Len(consumed) :
            i < j => Position(column, consumed[i].key) < Position(column, consumed[j].key)
====
